---- MODULE Spec2Model ----
(***************************************************************************)
(* Contact sensing firmware (first_contact_sensor_teensie): statue         *)
(* identity resolution and cluster directory (StatueConfig.cpp), the       *)
(* ContactState value type (AudioSense.h), the per-period aggregator and   *)
(* the fleet configuration sync (declared in AudioSense.h / Messaging.h).  *)
(*                                                                         *)
(* Strings are sequences of ASCII codes.  Thresholds and magnitudes are    *)
(* fixed-point numbers in units of 0.01 (0.01 is 1, 0.05 is 5).            *)
(***************************************************************************)
EXTENDS Integers, Sequences, FiniteSets, TLC

\* ------------------------------------------------------------ constants

MAX_STATUES == 5
NUM_STATUES == 5

\* strncpy(STATUE_NAMES[idx], ..., 9): at most 9 characters are kept.
NAME_COPY_LEN == 9

StatueIdx == 0 .. (MAX_STATUES - 1)
DetectorIdx == 0 .. (MAX_STATUES - 2)

\* Defaults of the identity globals.
DEFAULT_STATUE_ID == 65
DEFAULT_STATUE_INDEX == 0
DEFAULT_TX_FREQ == 10077
DEFAULT_THRESHOLD == 1

\* ------------------------------------------------------------ strings

EROS == <<69, 82, 79, 83>>
ELEKTRA == <<69, 76, 69, 75, 84, 82, 65>>
ARIEL == <<65, 82, 73, 69, 76>>
SOPHIA == <<83, 79, 80, 72, 73, 65>>
ULTIMO == <<85, 76, 84, 73, 77, 79>>

\* Document keys: the five of DefaultConfig.h, a key differing from "eros"
\* only in letter case, and a key that names no known statue.
key_eros == <<101, 114, 111, 115>>
key_elektra == <<101, 108, 101, 107, 116, 114, 97>>
key_ariel == <<97, 114, 105, 101, 108>>
key_sophia == <<115, 111, 112, 104, 105, 97>>
key_ultimo == <<117, 108, 116, 105, 109, 111>>
key_Eros == <<69, 114, 111, 115>>
key_zeus == <<122, 101, 117, 115>>

\* String::toUpperCase: a..z become A..Z, everything else is kept.
toUpperCase(s) ==
  [i \in 1 .. Len(s) |-> IF s[i] >= 97 /\ s[i] <= 122 THEN s[i] - 32 ELSE s[i]]

\* ------------------------------------------------------------ directory

\* Helper function to map statue name to index.
getStatueIndex(name) ==
  LET nameUpper == toUpperCase(name)
  IN  IF nameUpper = EROS THEN 0
      ELSE IF nameUpper = ELEKTRA THEN 1
      ELSE IF nameUpper = ARIEL THEN 2
      ELSE IF nameUpper = SOPHIA THEN 3
      ELSE IF nameUpper = ULTIMO THEN 4
      ELSE -1

DEFAULT_STATUE_FREQUENCIES ==
  [i \in StatueIdx |->
     CASE i = 0 -> 10077 [] i = 1 -> 12274 [] i = 2 -> 14643
       [] i = 3 -> 17227 [] i = 4 -> 19467]

DEFAULT_STATUE_NAMES ==
  [i \in StatueIdx |->
     CASE i = 0 -> EROS [] i = 1 -> ELEKTRA [] i = 2 -> ARIEL
       [] i = 3 -> SOPHIA [] i = 4 -> ULTIMO]

DEFAULT_STATUE_THRESHOLDS == [i \in StatueIdx |-> DEFAULT_THRESHOLD]

\* ------------------------------------------------------------ documents

\* A parsed directory document is the sequence of its entries in document
\* order (the order in which JsonObject iteration yields them).  An entry
\* carries its key and the fields the code reads, each with a presence flag
\* (containsKey).
NO_MATCH_IP == "192.168.4.99"

KnownKeys == {key_eros, key_elektra, key_ariel, key_sophia, key_ultimo}
Keys == KnownKeys \cup {key_Eros, key_zeus}

\* Keys of the documents that are enumerated in every order: the first, a
\* middle and the last statue, a key that differs from a statue's in letter
\* case only, and a name that is no statue's.
DocKeys == {key_eros, key_ariel, key_ultimo, key_Eros, key_zeus}

\* Values of DefaultConfig.h for the known keys.  The key "Eros" repeats the
\* address of "eros"; "zeus" has an address of its own.
ConfigIp(k) ==
  CASE k = key_eros -> "192.168.4.26" [] k = key_elektra -> "192.168.4.23"
    [] k = key_ariel -> "192.168.4.24" [] k = key_sophia -> "192.168.4.25"
    [] k = key_ultimo -> "192.168.4.27" [] k = key_Eros -> "192.168.4.26"
    [] k = key_zeus -> "192.168.4.29"

ConfigEmit(k) ==
  CASE k = key_eros -> 10077 [] k = key_elektra -> 12274 [] k = key_ariel -> 14643
    [] k = key_sophia -> 17227 [] k = key_ultimo -> 19467
    [] k = key_Eros -> 10120 [] k = key_zeus -> 21000

\* Alternative field values, all different from the compiled-in array
\* defaults, so that population of the arrays is observable.
AltEmit(k) == ConfigEmit(k) + 43

AltThreshold(k) ==
  CASE k = key_eros -> 2 [] k = key_elektra -> 3 [] k = key_ariel -> 4
    [] k = key_sophia -> 5 [] k = key_ultimo -> 6
    [] k = key_Eros -> 7 [] k = key_zeus -> 8

Defects == {"no_emit", "no_threshold", "no_ip"}

Entry(k, flavour) ==
  [key |-> k,
   has_ip |-> TRUE,
   ip_address |-> ConfigIp(k),
   has_emit |-> TRUE,
   emit |-> IF flavour = "default" THEN ConfigEmit(k) ELSE AltEmit(k),
   has_threshold |-> TRUE,
   threshold |-> IF flavour = "default" THEN DEFAULT_THRESHOLD ELSE AltThreshold(k)]

Drop(e, defect) ==
  CASE defect = "no_emit" -> [e EXCEPT !.has_emit = FALSE]
    [] defect = "no_threshold" -> [e EXCEPT !.has_threshold = FALSE]
    [] defect = "no_ip" -> [e EXCEPT !.has_ip = FALSE]

Range(s) == {s[i] : i \in 1 .. Len(s)}

\* Sequences of n distinct keys.
RECURSIVE KeySeqs(_)
KeySeqs(n) ==
  IF n = 0 THEN {<<>>}
  ELSE UNION {{Append(s, k) : k \in DocKeys \ Range(s)} : s \in KeySeqs(n - 1)}

\* The document of DefaultConfig.h.
DEFAULT_CONFIG_JSON ==
  <<Entry(key_eros, "default"), Entry(key_elektra, "default"),
    Entry(key_ariel, "default"), Entry(key_sophia, "default"),
    Entry(key_ultimo, "default")>>

\* Longest document enumerated in every order (DEFAULT_CONFIG_JSON, with
\* its MAX_STATUES entries, is added to them).
MaxEntries == 3

\* The documents: DEFAULT_CONFIG_JSON, and 0 .. MaxEntries entries with
\* distinct keys in any order and with the alternative field values; each
\* of them also with one field of one entry missing.
FullDocs ==
  {DEFAULT_CONFIG_JSON} \cup
  UNION {{[i \in 1 .. n |-> Entry(ks[i], "alt")] : ks \in KeySeqs(n)}
         : n \in 0 .. MaxEntries}

Docs ==
  FullDocs \cup
  UNION {{[d EXCEPT ![i] = Drop(d[i], x)] : i \in 1 .. Len(d), x \in Defects}
         : d \in FullDocs}

DocIps(d) == {d[i].ip_address : i \in 1 .. Len(d)}

\* What a string of the document reads as once the buffer it points into has
\* been freed and reused: "??", no statue's name and no node's address.
GARBLED == <<63, 63>>
GARBLED_IP == "??"

\* One entry read through dangling strings by one of the two loops.  The
\* first loop (line 76) reads the key, the value of ip_address and the member
\* name "emit"; the second loop (line 116) reads the key and the member names
\* "emit" and "threshold".  Any of the three may be garbled: a garbled key
\* names no statue, a garbled address equals no node's, a garbled member
\* name is not found by containsKey.  The numbers are held by the document
\* itself.  The entry as the text has it is one of the reads.
garbledEntry(e, pass) ==
  IF pass = "first"
  THEN {[e EXCEPT !.key = k, !.ip_address = a, !.has_emit = m] :
          k \in {e.key, GARBLED}, a \in {e.ip_address, GARBLED_IP},
          m \in {e.has_emit, FALSE}}
  ELSE {[e EXCEPT !.key = k, !.has_emit = m, !.has_threshold = t] :
          k \in {e.key, GARBLED}, m \in {e.has_emit, FALSE},
          t \in {e.has_threshold, FALSE}}

\* ------------------------------------------------------------ identity

\* MY_STATUE_NAME is a pointer: to the string literal "EROS" (its
\* initializer), to row `row` of STATUE_NAMES, or (wild) to no object of
\* the program.
LiteralEros == [literal |-> TRUE, row |-> 0, wild |-> FALSE]
RowPtr(i) == [literal |-> FALSE, row |-> i, wild |-> FALSE]
WildPtr == [literal |-> FALSE, row |-> 0, wild |-> TRUE]

DefaultIdentity ==
  [configFound |-> FALSE,
   MY_STATUE_INDEX |-> DEFAULT_STATUE_INDEX,
   THIS_STATUE_ID |-> DEFAULT_STATUE_ID,
   MY_TX_FREQ |-> DEFAULT_TX_FREQ,
   MY_STATUE_NAME |-> LiteralEros]

\* First pass: find which statue we are based on IP address.  The loop
\* stops (break) at the first entry whose ip_address equals myIpAddress.
RECURSIVE firstPass(_, _, _, _)
firstPass(d, myIpAddress, i, id) ==
  IF i > Len(d) THEN id
  ELSE IF d[i].has_ip /\ d[i].ip_address = myIpAddress
       THEN LET idx == getStatueIndex(d[i].key)
            IN  [configFound |-> TRUE,
                 MY_STATUE_INDEX |-> idx,
                 THIS_STATUE_ID |-> DEFAULT_STATUE_ID + idx,
                 MY_TX_FREQ |-> IF d[i].has_emit THEN d[i].emit ELSE id.MY_TX_FREQ,
                 MY_STATUE_NAME |-> RowPtr(idx)]
       ELSE firstPass(d, myIpAddress, i + 1, id)

\* strncpy(dst, src, 9); dst[9] = '\0'
CopyName(s) == SubSeq(s, 1, IF Len(s) < NAME_COPY_LEN THEN Len(s) ELSE NAME_COPY_LEN)

\* Body of the second-pass loop for one entry.
populateEntry(dir, e) ==
  LET idx == getStatueIndex(e.key)
  IN  IF idx >= 0 /\ idx < MAX_STATUES
      THEN [freq |-> IF e.has_emit THEN [dir.freq EXCEPT ![idx] = e.emit] ELSE dir.freq,
            thr |-> IF e.has_threshold
                    THEN [dir.thr EXCEPT ![idx] = e.threshold] ELSE dir.thr,
            names |-> [dir.names EXCEPT ![idx] = CopyName(toUpperCase(e.key))]]
      ELSE dir

\* Second pass: populate all statue frequencies, names and thresholds.
RECURSIVE secondPass(_, _, _)
secondPass(d, i, dir) ==
  IF i > Len(d) THEN dir ELSE secondPass(d, i + 1, populateEntry(dir, d[i]))

\* ------------------------------------------------------------ detectors

\* State of the loop of updateDetectorThresholds: the detector array, the
\* anyChanged flag, the number of assignments to detectorThresholds[...],
\* and whether a slot outside detectorThresholds[MAX_STATUES - 1] was
\* accessed.
\* `spill` lists the values assigned past the end of detectorThresholds.
UdtStart(det) ==
  [det |-> det, anyChanged |-> FALSE, writes |-> 0, oob |-> FALSE, spill |-> <<>>]

\* One iteration of the loop body for a statue_idx != MY_STATUE_INDEX.
\* `junk` is what a read past the end of the array yields; an assignment
\* past the end changes no detector and is recorded in `spill`.
udtBody(st, detectorIndex, newThreshold, junk) ==
  LET inside == detectorIndex \in DetectorIdx
      oldThreshold == IF inside THEN st.det[detectorIndex] ELSE junk
  IN  IF oldThreshold # newThreshold
      THEN [det |-> IF inside THEN [st.det EXCEPT ![detectorIndex] = newThreshold]
                    ELSE st.det,
            anyChanged |-> TRUE,
            writes |-> st.writes + 1,
            oob |-> st.oob \/ ~inside,
            spill |-> IF inside THEN st.spill ELSE Append(st.spill, newThreshold)]
      ELSE [st EXCEPT !.oob = st.oob \/ ~inside]

\* The loop over statue_idx, detectorIndex advancing past every statue but self.
RECURSIVE udtLoop(_, _, _, _, _, _)
udtLoop(statue_idx, detectorIndex, st, thr, self, junk) ==
  IF statue_idx >= NUM_STATUES THEN st
  ELSE IF statue_idx # self
       THEN udtLoop(statue_idx + 1, detectorIndex + 1,
                    udtBody(st, detectorIndex, thr[statue_idx], junk),
                    thr, self, junk)
       ELSE udtLoop(statue_idx + 1, detectorIndex, st, thr, self, junk)

updateDetectorThresholds_SkipsNext(det, thr, self, junk) ==
  udtLoop(0, 0, UdtStart(det), thr, self + 1, junk)

\* Update detector thresholds based on the current STATUE_THRESHOLDS array.
updateDetectorThresholds(det, thr, self, junk) ==
  udtLoop(0, 0, UdtStart(det), thr, self, junk)

\* ------------------------------------------------------------ boot

\* What a read of detectorThresholds[MAX_STATUES - 1], one past the end, can
\* yield; it happens only when MY_STATUE_INDEX is no statue index.  The read
\* is compared with STATUE_THRESHOLDS[MAX_STATUES - 1] only, which is the
\* default or what "ultimo" sets: the two values decide both ways.
OutOfBoundsReads(self) ==
  IF self \in 0 .. (NUM_STATUES - 1) THEN {DEFAULT_THRESHOLD}
  ELSE {DEFAULT_THRESHOLD, AltThreshold(key_ultimo)}

\* Accesses inside the arrays only.
InBoundsOnly == [read |-> DEFAULT_THRESHOLD, landing |-> "untracked", signedChar |-> TRUE]

\* detectorThresholds of the detection engine before setup(): every detector
\* at the default detection threshold 0.01.
InitialDetectorThresholds == [d \in DetectorIdx |-> DEFAULT_THRESHOLD]

\* The globals of StatueConfig.cpp as the compiler initializes them, the
\* detector thresholds, the outcome of the last updateDetectorThresholds()
\* (udt) and the memory right behind detectorThresholds (behind).
InitialGlobals ==
  [ret |-> "none",
   THIS_STATUE_ID |-> DEFAULT_STATUE_ID,
   MY_STATUE_INDEX |-> DEFAULT_STATUE_INDEX,
   MY_TX_FREQ |-> DEFAULT_TX_FREQ,
   MY_STATUE_NAME |-> LiteralEros,
   STATUE_FREQUENCIES |-> DEFAULT_STATUE_FREQUENCIES,
   STATUE_NAMES |-> DEFAULT_STATUE_NAMES,
   STATUE_THRESHOLDS |-> DEFAULT_STATUE_THRESHOLDS,
   detectorThresholds |-> InitialDetectorThresholds,
   udt |-> [called |-> FALSE, anyChanged |-> FALSE, writes |-> 0, oob |-> FALSE,
            entry |-> DEFAULT_STATUE_THRESHOLDS],
   behind |-> InBoundsOnly]

\* The four bytes, little-endian, of the float 0.01 * t (IEEE 754 single)
\* for the thresholds t in use: 0.01f is 0x3C23D70A, 0.06f is 0x3D75C28F.
FloatBytes(t) ==
  << <<10, 215, 35, 60>>, <<10, 215, 163, 60>>, <<143, 194, 245, 60>>,
     <<10, 215, 35, 61>>, <<205, 204, 76, 61>>, <<143, 194, 117, 61>>,
     <<41, 92, 143, 61>>, <<10, 215, 163, 61>> >>[t]

\* The low byte of that float.
FloatLowByte(t) == FloatBytes(t)[1]

\* Those four bytes read as an int: 0.01f is 1008981770.
FloatBits(t) ==
  LET b == FloatBytes(t) IN b[1] + 256 * b[2] + 65536 * b[3] + 16777216 * b[4]

\* A byte read as a plain char, which the build makes signed or unsigned.
AsChar(b, signedChar) == IF signedChar /\ b >= 128 THEN b - 256 ELSE b

\* A float that is no threshold in use: what the bytes of an int, of a
\* pointer or of a name are when read as a float (-1 is a NaN, 10077 is
\* 1.4e-41, an address in RAM is below 1e-18, "EROS" is 8.9e11).
NOT_A_THRESHOLD == 0

\* The objects of StatueConfig.cpp that the linker can place right behind
\* detectorThresholds.
Landings ==
  {"THIS_STATUE_ID", "MY_STATUE_INDEX", "MY_TX_FREQ", "MY_STATUE_NAME",
   "STATUE_FREQUENCIES", "STATUE_NAMES", "STATUE_THRESHOLDS"}

\* What detectorThresholds[MAX_STATUES - 1], one past the end, is in a build
\* (undefined behaviour; reached only when MY_STATUE_INDEX is no statue
\* index): memory the model does not track, or the first bytes of one of
\* the Landings.  `read` is the float held there where the memory behind
\* the array is not STATUE_THRESHOLDS[0].
OutOfBoundsOutcomes(self) ==
  IF self \in 0 .. (NUM_STATUES - 1) THEN {InBoundsOnly}
  ELSE {[read |-> j, landing |-> "untracked", signedChar |-> TRUE]
          : j \in OutOfBoundsReads(self)}
       \cup {[read |-> DEFAULT_THRESHOLD, landing |-> "STATUE_THRESHOLDS",
              signedChar |-> TRUE]}
       \cup {[read |-> j, landing |-> "THIS_STATUE_ID", signedChar |-> b]
               : j \in OutOfBoundsReads(self), b \in BOOLEAN}
       \cup {[read |-> NOT_A_THRESHOLD, landing |-> l, signedChar |-> TRUE]
               : l \in {"MY_STATUE_INDEX", "MY_TX_FREQ", "MY_STATUE_NAME",
                        "STATUE_FREQUENCIES", "STATUE_NAMES"}}

\* A call of updateDetectorThresholds() on the globals g.  An assignment past
\* the end of detectorThresholds lands where g.behind says and leaves the
\* bytes of the float there.
callUpdateDetectorThresholds(g) ==
  CHOOSE after \in
    {LET spilled == r.spill # <<>>
         hit(l) == spilled /\ g.behind.landing = l
         t == r.spill[Len(r.spill)]
     IN
     [g EXCEPT
        !.THIS_STATUE_ID = IF hit("THIS_STATUE_ID")
                           THEN AsChar(FloatLowByte(t), g.behind.signedChar) ELSE @,
        !.MY_STATUE_INDEX = IF hit("MY_STATUE_INDEX") THEN FloatBits(t) ELSE @,
        !.MY_TX_FREQ = IF hit("MY_TX_FREQ") THEN FloatBits(t) ELSE @,
        !.MY_STATUE_NAME = IF hit("MY_STATUE_NAME") THEN WildPtr ELSE @,
        !.STATUE_FREQUENCIES = IF hit("STATUE_FREQUENCIES")
                               THEN [@ EXCEPT ![0] = FloatBits(t)] ELSE @,
        !.STATUE_NAMES = IF hit("STATUE_NAMES")
                         THEN [@ EXCEPT ![0] = FloatBytes(t) \o SubSeq(@, 5, Len(@))]
                         ELSE @,
        !.STATUE_THRESHOLDS = IF hit("STATUE_THRESHOLDS")
                              THEN [@ EXCEPT ![0] = t] ELSE @,
        !.detectorThresholds = r.det,
        !.udt = [called |-> TRUE, anyChanged |-> r.anyChanged, writes |-> r.writes,
                 oob |-> r.oob, entry |-> g.STATUE_THRESHOLDS],
        !.behind = IF spilled /\ g.behind.landing # "STATUE_THRESHOLDS"
                   THEN [@ EXCEPT !.read = t] ELSE @]
     : r \in {updateDetectorThresholds(
                g.detectorThresholds, g.STATUE_THRESHOLDS, g.MY_STATUE_INDEX,
                IF g.behind.landing = "STATUE_THRESHOLDS" THEN g.STATUE_THRESHOLDS[0]
                ELSE g.behind.read)}}
    : TRUE

\* The end of initStatueConfig: MY_STATUE_NAME is pointed at the matched
\* row, updateDetectorThresholds() is called, configFound is returned.
finishInit(g, id, dir, ub) ==
  callUpdateDetectorThresholds(
    [g EXCEPT
       !.ret = id.configFound,
       !.THIS_STATUE_ID = id.THIS_STATUE_ID,
       !.MY_STATUE_INDEX = id.MY_STATUE_INDEX,
       !.MY_TX_FREQ = id.MY_TX_FREQ,
       !.MY_STATUE_NAME = IF id.configFound THEN RowPtr(id.MY_STATUE_INDEX)
                          ELSE id.MY_STATUE_NAME,
       !.STATUE_FREQUENCIES = dir.freq,
       !.STATUE_NAMES = dir.names,
       !.STATUE_THRESHOLDS = dir.thr,
       !.behind = ub])

\* The identity globals of g, as the first loop finds them.
IdentityOf(g) ==
  [configFound |-> FALSE,
   MY_STATUE_INDEX |-> g.MY_STATUE_INDEX,
   THIS_STATUE_ID |-> g.THIS_STATUE_ID,
   MY_TX_FREQ |-> g.MY_TX_FREQ,
   MY_STATUE_NAME |-> g.MY_STATUE_NAME]

\* The directory arrays of g, as the second loop finds them.
DirectoryOf(g) ==
  [freq |-> g.STATUE_FREQUENCIES, thr |-> g.STATUE_THRESHOLDS, names |-> g.STATUE_NAMES]

\* bool initStatueConfig(): the globals after the call and its return value
\* (ret).  `error` is the DeserializationError, `first` and `second` are the
\* document as the first and the second loop read it, `ub` is the memory
\* behind detectorThresholds.
initStatueConfig(g, error, first, second, myIpAddress, ub) ==
  IF error THEN [g EXCEPT !.ret = FALSE]
  ELSE finishInit(g, firstPass(first, myIpAddress, 1, IdentityOf(g)),
                  secondPass(second, 1, DirectoryOf(g)), ub)

\* ------------------------------------------------------------ contact state

\* uint8_t: wasLinkedMask and isLinkedMask are 8 bits wide.
MASK_BITS == 8
U8(x) == x % (2 ^ MASK_BITS)

\* a & b on non-negative ints.
RECURSIVE BitAnd(_, _)
BitAnd(a, b) ==
  IF a = 0 \/ b = 0 THEN 0
  ELSE (a % 2) * (b % 2) + 2 * BitAnd(a \div 2, b \div 2)

\* a | b on non-negative ints.
RECURSIVE BitOr(_, _)
BitOr(a, b) ==
  IF a = 0 THEN b
  ELSE IF b = 0 THEN a
  ELSE (IF a % 2 = 1 \/ b % 2 = 1 THEN 1 ELSE 0) + 2 * BitOr(a \div 2, b \div 2)

\* 1 << n
Shl1(n) == 2 ^ n

ContactStates ==
  [isInitialized : BOOLEAN,
   wasLinkedMask : 0 .. (2 ^ MASK_BITS - 1),
   isLinkedMask : 0 .. (2 ^ MASK_BITS - 1)]

\* Check if ANY statue is connected.
isLinked(cs) == cs.isLinkedMask # 0

\* Check if a specific statue is connected (0-based index).
isLinkedTo(cs, statueIndex) ==
  BitAnd(cs.isLinkedMask, Shl1(statueIndex)) # 0

isUnchanged_IgnoresInit(cs) == cs.isLinkedMask = cs.wasLinkedMask

\* Helper method returning whether the state changed.
isUnchanged(cs) ==
  cs.isInitialized /\ cs.isLinkedMask = cs.wasLinkedMask

\* ------------------------------------------------------------ detection engine

\* The statues node `self` listens for, and the detector slot of each.
Peers(self) == (0 .. (NUM_STATUES - 1)) \ {self}
\* detectorIndex counts the statues before s that are not self.
DetectorOf(s, self) == IF self >= 0 /\ self < s THEN s - 1 ELSE s

\* The engine has MAX_STATUES - 1 detectors: the peers that have one.  On a
\* node whose index is a statue index these are all its peers.
Listened(self) == {s \in Peers(self) : DetectorOf(s, self) \in DetectorIdx}

\* Magnitudes a detector can measure at the sampling instant: below every
\* threshold in use, equal to the default, equal to the raised one.
MagValues == {0, DEFAULT_THRESHOLD, 5}

\* A peer is above threshold if its magnitude >= the detector's threshold.
aboveThreshold(magnitude, threshold) == magnitude >= threshold

\* sampleDetections(): the peers above threshold this period; mags[d] is
\* the magnitude measured by detector slot d.
sampleDetections(mags, det, self) ==
  {s \in Listened(self) :
     aboveThreshold(mags[DetectorOf(s, self)], det[DetectorOf(s, self)])}

\* ------------------------------------------------------------ aggregator

\* Before the first detection cycle.
InitialContactState ==
  [isInitialized |-> FALSE, wasLinkedMask |-> 0, isLinkedMask |-> 0]

\* currentLinkMask: bit i is set for every peer index i detected.
RECURSIVE linkMask(_, _)
linkMask(detected, i) ==
  IF i >= NUM_STATUES THEN 0
  ELSE BitOr(IF i \in detected THEN Shl1(i) ELSE 0, linkMask(detected, i + 1))

advance_OneBitUp(detected, previousState) ==
  [isInitialized |-> TRUE,
   wasLinkedMask |-> previousState.isLinkedMask,
   isLinkedMask |-> U8(2 * linkMask(detected, 0))]

\* advance(detections, previousState) -> ContactState
advance(detected, previousState) ==
  [isInitialized |-> TRUE,
   wasLinkedMask |-> previousState.isLinkedMask,
   isLinkedMask |-> U8(linkMask(detected, 0))]

audioSenseLoop_Coalesces(pending, detected, previousState) ==
  IF pending = 0
  THEN [produced |-> 0, pending |-> 0, state |-> previousState]
  ELSE [produced |-> 1, pending |-> 0, state |-> advance(detected, previousState)]

\* bool audioSenseLoop(), polled by loop(): when an analysis period is due
\* (pending counts the periods elapsed and not yet analysed) it runs one
\* analysis tick, which samples the detections and advances the aggregator
\* once; otherwise it produces nothing.
audioSenseLoop(pending, detected, previousState) ==
  IF pending = 0
  THEN [produced |-> 0, pending |-> 0, state |-> previousState]
  ELSE [produced |-> 1, pending |-> pending - 1,
        state |-> advance(detected, previousState)]

\* ------------------------------------------------------------ configuration sync

\* struct TeensyConfig as its constructor leaves it: the RuntimeConfig.
TeensyConfig ==
  [threshold |-> DEFAULT_THRESHOLD,
   emitFreq |-> 0,
   detectStatues |-> <<"", "", "", "">>,
   ipAddress |-> "",
   macAddress |-> ""]

\* A configuration message: a document that does not decode, or one that
\* carries a threshold or none.  -1 is a threshold out of range.
Payload(malformed, has_threshold, threshold) ==
  [malformed |-> malformed, has_threshold |-> has_threshold, threshold |-> threshold]

Payloads ==
  {Payload(TRUE, FALSE, 0), Payload(FALSE, FALSE, 0)}
    \cup {Payload(FALSE, TRUE, t) : t \in {-1, DEFAULT_THRESHOLD, 5}}

\* parseConfig: a payload that does not decode is Error(Malformed) and
\* changes nothing; recognized fields are applied field by field; a field
\* out of range is rejected and the prior value kept.
parseConfig(payload, cfg) ==
  IF payload.malformed THEN [ok |-> FALSE, cfg |-> cfg]
  ELSE IF payload.has_threshold /\ payload.threshold > 0
       THEN [ok |-> TRUE, cfg |-> [cfg EXCEPT !.threshold = payload.threshold]]
       ELSE [ok |-> TRUE, cfg |-> cfg]

\* void updateDetectionThreshold(float threshold): the threshold, which
\* names no peer, becomes the threshold of every statue of the directory and
\* updateDetectorThresholds() carries it to the detectors.
updateDetectionThreshold(g, threshold) ==
  callUpdateDetectorThresholds(
    [g EXCEPT !.STATUE_THRESHOLDS = [i \in StatueIdx |-> threshold]])

\* applyConfig: pushes every changed field of the RuntimeConfig through its
\* reconfiguration entry point; `before` is the RuntimeConfig last applied.
applyConfig(g, before, cfg) ==
  IF cfg.threshold # before.threshold THEN updateDetectionThreshold(g, cfg.threshold)
  ELSE g

requestConfig_SendsAnyway(isConnected, pending) ==
  [sent |-> TRUE, outstanding |-> pending + 1]

\* requestConfig: publishes a request; fails silently when the transport is
\* disconnected.
requestConfig(isConnected, pending) ==
  IF isConnected THEN [sent |-> TRUE, outstanding |-> pending + 1]
  ELSE [sent |-> FALSE, outstanding |-> pending]

\* ------------------------------------------------------------ state

VARIABLES
  pc,                  \* "boot" before initStatueConfig, "run" after it,
                       \* "again" after a further updateDetectorThresholds()
  doc,                 \* the compiled-in directory document (the JSON text)
  parseError,          \* deserializeJson reported an error
  myIp,                \* getLocalIp()
  initResult,          \* return value of initStatueConfig ("none" before)
  THIS_STATUE_ID,
  MY_STATUE_INDEX,
  MY_TX_FREQ,
  MY_STATUE_NAME,
  STATUE_FREQUENCIES,
  STATUE_NAMES,
  STATUE_THRESHOLDS,
  detectorThresholds,
  udt,                 \* outcome of the last updateDetectorThresholds call
  behind,              \* the memory right behind detectorThresholds
  contactState,        \* the aggregator's ContactState (getContactState())
  detections,          \* the peers sampleDetections() reported last period
  periods,             \* analysis periods elapsed so far
  due,                 \* periods elapsed and not yet analysed
  ticksSeen,           \* analysis ticks run so far
  produced,            \* ContactStates produced by the last analysis tick
  prevIsMask,          \* isLinkedMask of the snapshot before the current one
  queried,             \* the last isUnchanged() query: whether asked, and the answer
  connected,           \* the transport (client.connected())
  outstanding,         \* requests published and not yet answered or lost
  lastRequest,         \* fate of the last requestConfig()
  everDropped,         \* some requestConfig() found the transport down
  syncState,           \* "AwaitingConfig" or "Applied"
  teensyConfig         \* the RuntimeConfig (TeensyConfig teensyConfig)

bootVars == <<pc, doc, parseError, myIp>>
globalVars == <<initResult, THIS_STATUE_ID, MY_STATUE_INDEX, MY_TX_FREQ, MY_STATUE_NAME,
                STATUE_FREQUENCIES, STATUE_NAMES, STATUE_THRESHOLDS,
                detectorThresholds, udt, behind>>
senseVars == <<contactState, detections, periods, due, ticksSeen, produced, prevIsMask>>
transportVars == <<connected, outstanding, lastRequest, everDropped>>
configVars == <<syncState, teensyConfig>>

vars == <<bootVars, globalVars, senseVars, queried, transportVars, configVars>>

NotQueried == [asked |-> FALSE, unchanged |-> FALSE]

\* Nothing sensed, asked or configured yet.
Idle ==
  /\ contactState = InitialContactState
  /\ detections = {}
  /\ periods = 0
  /\ due = 0
  /\ ticksSeen = 0
  /\ produced = 0
  /\ prevIsMask = 0
  /\ queried = NotQueried
  /\ connected = TRUE
  /\ outstanding = 0
  /\ lastRequest = "none"
  /\ everDropped = FALSE
  /\ syncState = "AwaitingConfig"
  /\ teensyConfig = TeensyConfig

\* The globals hold the values of record g.
GlobalsAre(g) ==
  /\ initResult = g.ret
  /\ THIS_STATUE_ID = g.THIS_STATUE_ID
  /\ MY_STATUE_INDEX = g.MY_STATUE_INDEX
  /\ MY_TX_FREQ = g.MY_TX_FREQ
  /\ MY_STATUE_NAME = g.MY_STATUE_NAME
  /\ STATUE_FREQUENCIES = g.STATUE_FREQUENCIES
  /\ STATUE_NAMES = g.STATUE_NAMES
  /\ STATUE_THRESHOLDS = g.STATUE_THRESHOLDS
  /\ detectorThresholds = g.detectorThresholds
  /\ udt = g.udt
  /\ behind = g.behind

\* The globals take the values of record g.
GlobalsBecome(g) ==
  /\ initResult' = g.ret
  /\ THIS_STATUE_ID' = g.THIS_STATUE_ID
  /\ MY_STATUE_INDEX' = g.MY_STATUE_INDEX
  /\ MY_TX_FREQ' = g.MY_TX_FREQ
  /\ MY_STATUE_NAME' = g.MY_STATUE_NAME
  /\ STATUE_FREQUENCIES' = g.STATUE_FREQUENCIES
  /\ STATUE_NAMES' = g.STATUE_NAMES
  /\ STATUE_THRESHOLDS' = g.STATUE_THRESHOLDS
  /\ detectorThresholds' = g.detectorThresholds
  /\ udt' = g.udt
  /\ behind' = g.behind

Globals ==
  [ret |-> initResult,
   THIS_STATUE_ID |-> THIS_STATUE_ID,
   MY_STATUE_INDEX |-> MY_STATUE_INDEX,
   MY_TX_FREQ |-> MY_TX_FREQ,
   MY_STATUE_NAME |-> MY_STATUE_NAME,
   STATUE_FREQUENCIES |-> STATUE_FREQUENCIES,
   STATUE_NAMES |-> STATUE_NAMES,
   STATUE_THRESHOLDS |-> STATUE_THRESHOLDS,
   detectorThresholds |-> detectorThresholds,
   udt |-> udt,
   behind |-> behind]

\* delete[] jsonBuffer (line 63) precedes every read of the JsonDocument.  A
\* document that copied its strings reads as the text d; one that points
\* into the freed buffer reads, in each loop on its own, with any number of
\* its entries garbled.

\* The first loop (line 76) from entry i on, nothing having matched yet: it
\* ends at the first entry that reads as a match.
RECURSIVE firstPassFrom(_, _, _, _)
firstPassFrom(d, ip, i, id) ==
  IF i > Len(d) THEN {id}
  ELSE UNION {IF r.configFound THEN {r} ELSE firstPassFrom(d, ip, i + 1, id)
              : r \in {firstPass(<<e>>, ip, 1, id) : e \in garbledEntry(d[i], "first")}}

\* The second loop (line 116) from entry i on, the directory being one of
\* dirs.
RECURSIVE secondPassFrom(_, _, _)
secondPassFrom(d, i, dirs) ==
  IF i > Len(d) THEN dirs
  ELSE secondPassFrom(d, i + 1,
         UNION {{secondPass(<<e>>, 1, dir) : e \in garbledEntry(d[i], "second")}
                : dir \in dirs})

\* What the first loop of initStatueConfig can find in document d at
\* address ip, and what the second loop can make of the directory g.
firstPassOutcomes(d, ip, g) == firstPassFrom(d, ip, 1, IdentityOf(g))

secondPassOutcomes(d, g) == secondPassFrom(d, 1, {DirectoryOf(g)})

\* The globals initStatueConfig() can leave, called on the globals g.
initStatueConfigOutcomes(g, error, d, ip) ==
  IF error THEN {initStatueConfig(g, TRUE, d, d, ip, InBoundsOnly)}
  ELSE UNION {UNION {UNION {{finishInit(g, id, dir, ub)
                               : ub \in OutOfBoundsOutcomes(id.MY_STATUE_INDEX)}
                            : dir \in dirs}
                     : id \in firstPassOutcomes(d, ip, g)}
              : dirs \in {secondPassOutcomes(d, g)}}

InitBoot ==
  /\ pc = "boot"
  /\ \/ /\ parseError = FALSE
        /\ doc \in Docs
        /\ myIp \in DocIps(doc) \cup {NO_MATCH_IP}
     \/ /\ parseError = TRUE
        /\ doc = <<>>
        /\ myIp = NO_MATCH_IP
  /\ GlobalsAre(InitialGlobals)
  /\ Idle

\* setup() calls initStatueConfig() once.
InitStatueConfig ==
  /\ pc = "boot"
  /\ pc' = "run"
  /\ UNCHANGED <<doc, parseError, myIp, senseVars, queried, transportVars, configVars>>
  /\ \E g \in initStatueConfigOutcomes(Globals, parseError, doc, myIp) :
       GlobalsBecome(g)

\* updateDetectorThresholds() is called once more on the directory that
\* setup() left.
UpdateDetectorThresholds ==
  /\ pc = "run"
  /\ pc' = "again"
  /\ UNCHANGED <<doc, parseError, myIp, senseVars, queried, transportVars, configVars>>
  /\ GlobalsBecome(callUpdateDetectorThresholds(Globals))

NextBoot == InitStatueConfig \/ UpdateDetectorThresholds

SpecBoot == InitBoot /\ [][NextBoot]_vars

\* ------------------------------------------------------------ main loop

\* The node after setup(): initStatueConfig() has run on DEFAULT_CONFIG_JSON
\* at the address of one of the five statues or at an address the document
\* does not list, with any outcome the call can have.
InitAfterSetup ==
  /\ pc = "run"
  /\ parseError = FALSE
  /\ doc = DEFAULT_CONFIG_JSON
  /\ myIp \in DocIps(DEFAULT_CONFIG_JSON) \cup {NO_MATCH_IP}
  /\ \E g \in initStatueConfigOutcomes(InitialGlobals, FALSE, DEFAULT_CONFIG_JSON, myIp) :
       GlobalsAre(g)

InitRun == InitAfterSetup /\ Idle

\* Analysis periods the run is followed for, and periods that can elapse
\* between two polls of audioSenseLoop().
MaxPeriods == 2
MaxDue == 2

\* The period timer: one more analysis period (mainPeriodMs) has elapsed.
PeriodElapses ==
  /\ pc = "run"
  /\ periods < MaxPeriods
  /\ due < MaxDue
  /\ periods' = periods + 1
  /\ due' = due + 1
  /\ UNCHANGED <<bootVars, globalVars, contactState, detections, ticksSeen, produced,
                 prevIsMask, queried, transportVars, configVars>>

\* loop() polls audioSenseLoop().
Tick ==
  /\ pc = "run"
  /\ \E detected \in {sampleDetections(mags, detectorThresholds, MY_STATUE_INDEX) :
                         mags \in [DetectorIdx -> MagValues]} :
       \E r \in {audioSenseLoop(due, detected, contactState)} :
         /\ due' = r.pending
         /\ contactState' = r.state
         /\ ticksSeen' = ticksSeen + r.produced
         /\ produced' = IF r.produced = 0 THEN produced ELSE r.produced
         /\ detections' = IF r.produced = 0 THEN detections ELSE detected
         /\ prevIsMask' = IF r.produced = 0 THEN prevIsMask ELSE contactState.isLinkedMask
  /\ UNCHANGED <<bootVars, globalVars, periods, queried, transportVars, configVars>>

\* mqttSubCallback on the configuration topic: parseConfig, then applyConfig.
HandleConfig(payload) ==
  /\ pc = "run"
  /\ connected
  /\ \E r \in {parseConfig(payload, teensyConfig)} :
       /\ teensyConfig' = r.cfg
       /\ syncState' = IF r.ok THEN "Applied" ELSE syncState
       /\ GlobalsBecome(IF r.ok THEN applyConfig(Globals, teensyConfig, r.cfg)
                        ELSE Globals)
  /\ UNCHANGED <<bootVars, senseVars, queried, connected, everDropped>>

\* The central controller pushes a configuration without being asked.
ConfigPush ==
  \E payload \in Payloads :
    /\ HandleConfig(payload)
    /\ UNCHANGED <<outstanding, lastRequest>>

NextRun == PeriodElapses \/ Tick \/ ConfigPush

SpecRun == InitRun /\ [][NextRun]_vars

\* ------------------------------------------------------------ transport

\* Requests that are followed while outstanding.
MaxOutstanding == 2

\* requestConfig()
RequestConfig ==
  /\ pc = "run"
  /\ connected => outstanding < MaxOutstanding
  /\ \E r \in {requestConfig(connected, outstanding)} :
       /\ outstanding' = r.outstanding
       /\ lastRequest' = IF r.sent THEN "sent" ELSE "dropped"
       /\ everDropped' = (everDropped \/ ~r.sent)
  /\ UNCHANGED <<bootVars, globalVars, senseVars, queried, connected, configVars>>

\* The response to an outstanding request arrives.
ConfigResponse ==
  /\ outstanding > 0
  /\ \E payload \in Payloads : HandleConfig(payload)
  /\ outstanding' = outstanding - 1
  /\ lastRequest' = "answered"

\* The response to an outstanding request never arrives.
LoseResponse ==
  /\ pc = "run"
  /\ outstanding > 0
  /\ outstanding' = outstanding - 1
  /\ lastRequest' = "lost"
  /\ UNCHANGED <<bootVars, globalVars, senseVars, queried, connected, everDropped,
                 configVars>>

\* The transport goes down.
Disconnect ==
  /\ pc = "run"
  /\ connected
  /\ connected' = FALSE
  /\ UNCHANGED <<bootVars, globalVars, senseVars, queried, outstanding, lastRequest,
                 everDropped, configVars>>

\* reconnect()
Reconnect ==
  /\ pc = "run"
  /\ ~connected
  /\ connected' = TRUE
  /\ UNCHANGED <<bootVars, globalVars, senseVars, queried, outstanding, lastRequest,
                 everDropped, configVars>>

NextSync ==
  RequestConfig \/ ConfigResponse \/ ConfigPush \/ LoseResponse \/ Disconnect \/ Reconnect

SpecSync == InitRun /\ [][NextSync]_vars

\* ------------------------------------------------------------ ContactState values

\* Any ContactState value, handed to a consumer.  isUnchanged() reads the
\* value only, so the globals are left as the compiler initializes them.
InitState ==
  /\ pc = "boot"
  /\ parseError = FALSE
  /\ doc = DEFAULT_CONFIG_JSON
  /\ myIp = ConfigIp(key_eros)
  /\ GlobalsAre(InitialGlobals)
  /\ contactState \in ContactStates
  /\ detections = {}
  /\ periods = 0
  /\ due = 0
  /\ ticksSeen = 0
  /\ produced = 0
  /\ prevIsMask = 0
  /\ queried = NotQueried
  /\ connected = TRUE
  /\ outstanding = 0
  /\ lastRequest = "none"
  /\ everDropped = FALSE
  /\ syncState = "AwaitingConfig"
  /\ teensyConfig = TeensyConfig

\* A consumer asks state.isUnchanged().
QueryUnchanged ==
  /\ ~queried.asked
  /\ queried' = [asked |-> TRUE, unchanged |-> isUnchanged(contactState)]
  /\ UNCHANGED <<bootVars, globalVars, senseVars, transportVars, configVars>>

NextState == QueryUnchanged

SpecState == InitState /\ [][NextState]_vars

\* ------------------------------------------------------------ boot claims

\* The row of the compiled-in name table (EROS, ELEKTRA, ARIEL, SOPHIA,
\* ULTIMO) that holds key k in upper case, or -1.
NameRows ==
  [k \in Keys |->
     CHOOSE r \in {IF \E j \in StatueIdx : DEFAULT_STATUE_NAMES[j] = u
                   THEN CHOOSE j \in StatueIdx : DEFAULT_STATUE_NAMES[j] = u
                   ELSE -1 : u \in {toUpperCase(k)}} : TRUE]

NameRow(k) == NameRows[k]

\* The string MY_STATUE_NAME points to.
MyStatueName ==
  IF MY_STATUE_NAME.literal THEN EROS
  ELSE IF ~MY_STATUE_NAME.wild /\ MY_STATUE_NAME.row \in StatueIdx
       THEN STATUE_NAMES[MY_STATUE_NAME.row]
  ELSE <<>>

Booted == pc = "run" /\ ~parseError

\* Positions of the entries of the document whose ip_address is the node's
\* address.
Matches == {i \in 1 .. Len(doc) : doc[i].has_ip /\ doc[i].ip_address = myIp}
FirstMatch == CHOOSE i \in Matches : \A j \in Matches : i <= j

\* A valid directory document: 2 .. MAX_STATUES entries, each naming a known
\* statue, no statue and no address twice, no field missing.
ValidDoc ==
  /\ Len(doc) >= 2 /\ Len(doc) <= MAX_STATUES
  /\ \A i \in 1 .. Len(doc) :
       /\ NameRow(doc[i].key) # -1
       /\ doc[i].has_ip /\ doc[i].has_emit /\ doc[i].has_threshold
  /\ \A i, j \in 1 .. Len(doc) :
       i # j => /\ NameRow(doc[i].key) # NameRow(doc[j].key)
                /\ doc[i].ip_address # doc[j].ip_address

\* The index the code has assigned to entry i of the document: the row of
\* the directory it was stored in.
AssignedRows(i) ==
  {j \in StatueIdx : /\ STATUE_NAMES[j] = toUpperCase(doc[i].key)
                     /\ STATUE_FREQUENCIES[j] = doc[i].emit
                     /\ STATUE_THRESHOLDS[j] = doc[i].threshold}

\* C3: for a valid document with N entries every entry gets a unique index
\* in [0, N), and the matched node's index is the position of its entry in
\* the document, whatever the order of the entries.
C3_PositionalIndex ==
  (Booted /\ ValidDoc /\ Matches # {}) =>
    /\ \A i \in 1 .. Len(doc) :
         \E j \in 0 .. (Len(doc) - 1) : AssignedRows(i) = {j}
    /\ \A i, j \in 1 .. Len(doc) : i # j => AssignedRows(i) # AssignedRows(j)
    /\ MY_STATUE_INDEX = FirstMatch - 1

\* What the document says about row j of the directory: the value of the
\* last entry naming statue j that carries the field, or the default.
Last(S) == IF S = {} THEN 0 ELSE CHOOSE i \in S : \A k \in S : k <= i

ExpectedFrequency(j) ==
  CHOOSE v \in
    {IF n = 0 THEN DEFAULT_STATUE_FREQUENCIES[j] ELSE doc[n].emit
       : n \in {Last({i \in 1 .. Len(doc) :
                        doc[i].has_emit /\ NameRow(doc[i].key) = j})}} : TRUE

ExpectedThreshold(j) ==
  CHOOSE v \in
    {IF n = 0 THEN DEFAULT_STATUE_THRESHOLDS[j] ELSE doc[n].threshold
       : n \in {Last({i \in 1 .. Len(doc) :
                        doc[i].has_threshold /\ NameRow(doc[i].key) = j})}} : TRUE

DirectoryPopulated ==
  \A j \in StatueIdx :
    /\ STATUE_FREQUENCIES[j] = ExpectedFrequency(j)
    /\ STATUE_THRESHOLDS[j] = ExpectedThreshold(j)
    /\ STATUE_NAMES[j] = DEFAULT_STATUE_NAMES[j]

\* C4: when no entry's ip_address is the node's address, initStatueConfig
\* returns false and the identity stays the default (index 0, 'A', EROS,
\* 10077 Hz); the directory arrays are populated from every entry of the
\* document, as they are when an entry matches.
C4_NoMatchFallback ==
  (Booted /\ Matches = {}) =>
    /\ initResult = FALSE
    /\ MY_STATUE_INDEX = 0
    /\ THIS_STATUE_ID = 65
    /\ MyStatueName = EROS
    /\ MY_TX_FREQ = 10077
    /\ DirectoryPopulated

\* C5: if the matched entry lacks emit, identity resolution reports failure
\* while the other statues' entries are still populated; a missing optional
\* field keeps the default and all other fields apply.
C5_MissingEmitIsFailure ==
  Booted =>
    /\ (Matches # {} /\ ~doc[FirstMatch].has_emit) => initResult = FALSE
    /\ DirectoryPopulated

\* C6: once updateDetectorThresholds() has applied STATUE_THRESHOLDS, a
\* second application of the same values writes no detector and reports
\* nothing changed, and it leaves the RuntimeConfig, the directory and every
\* detector threshold as the first application left them.
C6_ApplyTwiceIsApplyOnce ==
  [][(pc = "run" /\ pc' = "again" /\ udt.called) =>
       /\ teensyConfig' = teensyConfig
       /\ STATUE_FREQUENCIES' = STATUE_FREQUENCIES
       /\ STATUE_NAMES' = STATUE_NAMES
       /\ STATUE_THRESHOLDS' = STATUE_THRESHOLDS
       /\ detectorThresholds' = detectorThresholds
       /\ udt'.writes = 0
       /\ ~udt'.anyChanged
    ]_vars

\* C10: after updateDetectorThresholds() on a node with MY_STATUE_INDEX in
\* 0 .. NUM_STATUES-1, the detector slot of every other statue holds that
\* statue's threshold; only slots 0 .. NUM_STATUES-2 are touched, the node's
\* own threshold is copied to no detector, and STATUE_THRESHOLDS is as it
\* was when the call began.  (Before the call every detector holds the
\* default, so one assignment is made per other statue with a threshold of
\* its own.)
C10_DetectorsFollowDirectory ==
  (Booted /\ udt.called /\ MY_STATUE_INDEX \in 0 .. (NUM_STATUES - 1)) =>
    /\ \A s \in (0 .. (NUM_STATUES - 1)) \ {MY_STATUE_INDEX} :
         detectorThresholds[DetectorOf(s, MY_STATUE_INDEX)] = STATUE_THRESHOLDS[s]
    /\ udt.writes =
         Cardinality({s \in (0 .. (NUM_STATUES - 1)) \ {MY_STATUE_INDEX} :
                        STATUE_THRESHOLDS[s] # DEFAULT_THRESHOLD})
    /\ udt.writes <= NUM_STATUES - 1
    /\ ~udt.oob
    /\ udt.anyChanged = (udt.writes # 0)
    /\ (\A s \in (0 .. (NUM_STATUES - 1)) \ {MY_STATUE_INDEX} :
          STATUE_THRESHOLDS[s] # STATUE_THRESHOLDS[MY_STATUE_INDEX])
       => \A d \in DetectorIdx :
            detectorThresholds[d] # STATUE_THRESHOLDS[MY_STATUE_INDEX]
    /\ STATUE_THRESHOLDS = udt.entry

\* C10 witness: node ARIEL (index 2) after a document that gave EROS,
\* ARIEL and ULTIMO thresholds of their own: slots 0 and 3 were written.
C10_Witness ==
  /\ Booted /\ udt.called /\ MY_STATUE_INDEX = 2
  /\ STATUE_THRESHOLDS[0] = 2 /\ STATUE_THRESHOLDS[2] = 4 /\ STATUE_THRESHOLDS[4] = 6
  /\ detectorThresholds[0] = 2 /\ detectorThresholds[3] = 6
  /\ udt.writes = 2


\* ------------------------------------------------------------ claims: contact state

\* Bit b of an 8-bit mask.
Bit(mask, b) == (mask \div (2 ^ b)) % 2

\* C1: after every analysis period, on every node whose index is in
\* 0 .. NUM_STATUES-1, isLinkedTo(i) holds for a peer i exactly when that
\* period's detection for i was true, and the bit at the node's own position
\* is 0 in every state.
C1_MaskMatchesDetections ==
  MY_STATUE_INDEX \in 0 .. (NUM_STATUES - 1) =>
    /\ ~isLinkedTo(contactState, MY_STATUE_INDEX)
    /\ Bit(contactState.isLinkedMask, MY_STATUE_INDEX) = 0
    /\ ticksSeen >= 1 =>
         \A i \in Peers(MY_STATUE_INDEX) :
           /\ isLinkedTo(contactState, i) <=> (i \in detections)
           /\ Bit(contactState.isLinkedMask, i) = (IF i \in detections THEN 1 ELSE 0)

\* Node 2 (ARIEL) has seen two periods; the last detected peers 0 and 4 only,
\* the one before detected peer 3 only, with the threshold raised.
C1_Witness ==
  /\ MY_STATUE_INDEX = 2
  /\ ticksSeen = 2
  /\ detections = {0, 4}
  /\ contactState.isLinkedMask = 17
  /\ contactState.wasLinkedMask = 8
  /\ detectorThresholds[3] = 5

\* C2: for every ContactState value, isUnchanged() is true exactly when
\* isInitialized is true and the two masks agree in all 8 bits; it is false
\* for an uninitialized state even when the masks are equal.
C2_UnchangedIffInitializedAndEqual ==
  queried.asked =>
    (queried.unchanged <=>
       /\ contactState.isInitialized = TRUE
       /\ \A b \in 0 .. (MASK_BITS - 1) :
            Bit(contactState.isLinkedMask, b) = Bit(contactState.wasLinkedMask, b))

\* An uninitialized state with equal, nonzero masks was asked and said no.
C2_Witness ==
  /\ queried.asked
  /\ ~queried.unchanged
  /\ ~contactState.isInitialized
  /\ contactState.isLinkedMask = 5
  /\ contactState.wasLinkedMask = 5


\* ------------------------------------------------------------ claims: configuration

\* The magnitude vectors in which detector slot d measures m and every other
\* slot measures n.
MagsAround(d) ==
  {[e \in DetectorIdx |-> IF e = d THEN m ELSE n] : m \in MagValues, n \in MagValues}

ResponseIs(u) ==
  /\ outstanding > 0
  /\ HandleConfig(u)
  /\ outstanding' = outstanding - 1
  /\ lastRequest' = "answered"

InBoundsWrites ==
  Cardinality({d \in DetectorIdx :
                 detectorThresholds[d] # InitialGlobals.detectorThresholds[d]})

\* C11 as stated: after initStatueConfig() on any document and any address,
\* MY_STATUE_INDEX is in 0 .. NUM_STATUES-1, MY_STATUE_NAME refers to an
\* element of STATUE_NAMES, and every assignment updateDetectorThresholds()
\* made went to a slot inside detectorThresholds.
C11_IndexAndWritesInBounds ==
  (Booted /\ udt.called) =>
    /\ MY_STATUE_INDEX \in 0 .. (NUM_STATUES - 1)
    /\ \/ MY_STATUE_NAME.literal
       \/ ~MY_STATUE_NAME.wild /\ MY_STATUE_NAME.row \in StatueIdx
    /\ udt.writes = InBoundsWrites

\* C12 as stated: whenever initStatueConfig() returned true, MY_TX_FREQ is
\* the frequency in the node's own directory row, THIS_STATUE_ID is 'A' plus
\* the index, and MY_STATUE_NAME refers to the node's own row of STATUE_NAMES.
C12_IdentityMatchesOwnRow ==
  (Booted /\ initResult = TRUE) =>
    /\ MY_STATUE_INDEX \in StatueIdx
    /\ MY_TX_FREQ = STATUE_FREQUENCIES[MY_STATUE_INDEX]
    /\ THIS_STATUE_ID = DEFAULT_STATUE_ID + MY_STATUE_INDEX
    /\ MY_STATUE_NAME = RowPtr(MY_STATUE_INDEX)

====
